---- MODULE Spec2Model ----
(***************************************************************************)
(* A model of rdb_protocol/protocol.cc: region extraction and sharding of  *)
(* reads, writes and backfill chunks, the merging (unshard /               *)
(* multistore_unshard) of per-shard responses, cpu_sharding_subspace, the  *)
(* local executor's reads, reset_data, and the backfill sender and         *)
(* receiver.  Keys are small naturals standing for byte-string keys in     *)
(* their lexicographic order; documents are opaque naturals.               *)
(***************************************************************************)
EXTENDS Integers, Sequences, FiniteSets, TLC

(* ------------------------------ bounds --------------------------------- *)

\* keys are 0..MaxKey
MaxKey == 1
\* the hash universe is [0, HASH_REGION_HASH_SIZE), scaled down
HASH_REGION_HASH_SIZE == 4
\* number of piece responses handed to an unshard call
MaxPieces == 2
\* rget_read_t::maximum ranges over 0..MaxMaximum
MaxMaximum == 2
\* length / inserted / atom values of a piece range over 0..MaxAtom
MaxAtom == 2
\* number of piece responses handed to an unshard call of a distribution read
MaxDistPieces == 2
\* num_cpu_shards ranges over 1..MaxCpuShards
MaxCpuShards == 6
\* the cap on the rows of one range read of a store (1000 in the code), scaled down
RgetSoftCap == 1

VARIABLES read, region, responses, sharded, response_out, pc,
          op, num_cpu_shards,
          store, shards, receiver, chunks, tasks, interruptor, backfill

\* the state of the operation being sharded and of the stores and the backfill
storeVars == <<store, shards, receiver, chunks, tasks, interruptor, backfill>>
extVars == <<op, num_cpu_shards, store, shards, receiver, chunks, tasks, interruptor, backfill>>

vars == <<read, region, responses, sharded, response_out, pc,
          op, num_cpu_shards,
          store, shards, receiver, chunks, tasks, interruptor, backfill>>

NoVal == [tag |-> "none"]

\* no store is attached and no backfill is running
NoStores ==
    /\ store = NoVal /\ shards = NoVal /\ receiver = NoVal /\ chunks = NoVal
    /\ tasks = NoVal /\ interruptor = NoVal /\ backfill = NoVal

NoOp == op = NoVal /\ num_cpu_shards = NoVal

(* --------------------------- keys and regions -------------------------- *)

Keys == 0..MaxKey

\* key_range_t: left is closed, right is open; right = MaxKey + 1 stands for
\* the unbounded right end.
key_range_t(l, r) == [left |-> l, right |-> r]

\* key_range_t(closed, k, closed, k)
closed_key_range(l, r) == key_range_t(l, r + 1)

KeyRanges == {key_range_t(l, r) : l \in Keys, r \in 0..(MaxKey + 1)}

key_range_is_empty(kr) == kr.right <= kr.left

NonEmptyKeyRanges == {kr \in KeyRanges : ~key_range_is_empty(kr)}

contains_key(kr, k) == kr.left <= k /\ k < kr.right

\* the last key of a non-empty range: the right bound decremented, or the
\* largest key when the range is unbounded
last_key_in_range(kr) == kr.right - 1

key_range_is_superset(outer, inner) ==
    \/ key_range_is_empty(inner)
    \/ (outer.left <= inner.left /\ inner.right <= outer.right)

\* hash_region_t<key_range_t>
region_t3(b, e, kr) == [beg |-> b, end |-> e, inner |-> kr]

\* region_t(key_range): the whole hash universe
region_t(kr) == region_t3(0, HASH_REGION_HASH_SIZE, kr)

region_is_empty(r) == r.beg >= r.end \/ key_range_is_empty(r.inner)

region_is_superset(outer, inner) ==
    \/ region_is_empty(inner)
    \/ /\ outer.beg <= inner.beg
       /\ inner.end <= outer.end
       /\ key_range_is_superset(outer.inner, inner.inner)

hash_region_hasher(k) == (3 * k + 1) % HASH_REGION_HASH_SIZE

monokey_region(k) ==
    region_t3(hash_region_hasher(k), hash_region_hasher(k) + 1, closed_key_range(k, k))

Regions ==
    {region_t3(b, e, kr) : b \in 0..HASH_REGION_HASH_SIZE,
                           e \in 0..HASH_REGION_HASH_SIZE, kr \in KeyRanges}

(* -------------------------------- reads -------------------------------- *)

\* the terminals of an rget_read_t; "none" is the absent optional
Bodies == {"add", "max", "sub", "throw"}
Bases == {"zero", "throw"}

Terminals ==
    {[tag |-> "none"], [tag |-> "Length"], [tag |-> "ForEach"]}
    \cup {[tag |-> "Reduction", base |-> b, body |-> f] : b \in Bases, f \in Bodies}

\* Builtin_GroupedMapReduce terminals, with the reduction they carry
GmrTerminals ==
    {[tag |-> "GroupedMapReduce", base |-> b, body |-> f] : b \in Bases, f \in Bodies}

point_read_t(k) == [type |-> "point", key |-> k]

rget_read_t(kr, m, t) == [type |-> "rget", key_range |-> kr, maximum |-> m, terminal |-> t]

distribution_read_t(kr) == [type |-> "distribution", range |-> kr]

PointReads == {point_read_t(k) : k \in Keys}

RgetReads == {rget_read_t(kr, m, t) : kr \in NonEmptyKeyRanges, m \in 0..MaxMaximum, t \in Terminals}

DistributionReads == {distribution_read_t(kr) : kr \in NonEmptyKeyRanges}

Reads == PointReads \cup RgetReads \cup DistributionReads

\* r_get_region_visitor
get_region(r) ==
    CASE r.type = "point" -> monokey_region(r.key)
      [] r.type = "rget" -> region_t(r.key_range)
      [] r.type = "distribution" -> region_t(r.range)

\* the rassert of r_shard_visitor
shard_rassert(r, reg) ==
    CASE r.type = "point" -> monokey_region(r.key) = reg
      [] r.type = "rget" -> region_is_superset(region_t(r.key_range), reg)
      [] r.type = "distribution" -> region_is_superset(region_t(r.range), reg)

\* r_shard_visitor
shard(r, reg) ==
    CASE r.type = "point" -> r
      [] r.type = "rget" -> [r EXCEPT !.key_range = reg.inner]
      [] r.type = "distribution" -> [r EXCEPT !.range = reg.inner]

(* ----------------------- specification: sharding ----------------------- *)

InitShard ==
    /\ read \in Reads
    /\ region \in {R \in Regions : ~region_is_empty(R) /\ region_is_superset(get_region(read), R)}
    /\ responses = <<>>
    /\ sharded = NoVal
    /\ response_out = NoVal
    /\ pc = "start"
    /\ NoOp /\ NoStores

\* read_t::shard
ReadShard ==
    /\ pc = "start"
    /\ shard_rassert(read, region)
    /\ sharded' = shard(read, region)
    /\ pc' = "sharded"
    /\ UNCHANGED <<read, region, responses, response_out>>
    /\ UNCHANGED extVars

NextShard == ReadShard

SpecShard == InitShard /\ [][NextShard]_vars

\* C1: for every read r and non-empty region R with get_region(r) a superset of R,
\* get_region(shard(r, R)) = R in both the hash interval and the key range.
C1_ShardRegionIsR ==
    pc = "sharded" => get_region(sharded) = region

(* ----------------------- range-read responses -------------------------- *)

\* rget_read_response_t; result is the variant result_t
rget_read_response_t(res, tr, kr, lck) ==
    [result |-> res, truncated |-> tr, key_range |-> kr, last_considered_key |-> lck]

stream_t(s) == [tag |-> "stream", stream |-> s]
atom_t(a) == [tag |-> "atom", atom |-> a]
length_t(n) == [tag |-> "length", length |-> n]
inserted_t(n) == [tag |-> "inserted", inserted |-> n]
runtime_exc_t(m) == [tag |-> "runtime_exc", message |-> m]
\* groups_t: a map from group key to value, here a function on a set of group keys
groups_t(g) == [tag |-> "groups", groups |-> g]

\* the group keys g1, g2, g3 in their map order, and the values a piece holds
GroupKeys == {1, 2, 3}
GroupValues == {1, 2}
GroupMaps == UNION {[D -> GroupValues] : D \in SUBSET GroupKeys}

ErrorMessages == {"exc1", "exc2"}

\* the document piece i holds under key k
Doc(i, k) == 10 * i + k

RECURSIVE SortedStream(_, _)
\* the pairs of piece i for the keys of S, in ascending key order
SortedStream(i, S) ==
    IF S = {} THEN <<>>
    ELSE LET k == CHOOSE x \in S : \A y \in S : x <= y
         IN <<(<<k, Doc(i, k)>>)>> \o SortedStream(i, S \ {k})

RangeKeys(kr) == {k \in Keys : contains_key(kr, k)}

\* what a piece can answer to the range read rg, before its documents are filled in
PieceChoices(rg) ==
    {[tag |-> "runtime_exc", message |-> m] : m \in ErrorMessages}
    \cup
    CASE rg.terminal.tag = "none" ->
            {[tag |-> "stream", keys |-> S, truncated |-> tr, last_considered_key |-> lck] :
                S \in SUBSET RangeKeys(rg.key_range), tr \in BOOLEAN, lck \in Keys}
      [] rg.terminal.tag = "Reduction" -> {[tag |-> "atom", n |-> a] : a \in 0..MaxAtom}
      [] rg.terminal.tag = "Length" -> {[tag |-> "length", n |-> a] : a \in 0..MaxAtom}
      [] rg.terminal.tag = "ForEach" -> {[tag |-> "inserted", n |-> a] : a \in 0..MaxAtom}
      [] rg.terminal.tag = "GroupedMapReduce" -> {[tag |-> "groups", groups |-> g] : g \in GroupMaps}

\* the response of piece i to the range read rg for the choice c
Piece(rg, i, c) ==
    CASE c.tag = "runtime_exc" ->
            rget_read_response_t(runtime_exc_t(c.message), FALSE, rg.key_range, rg.key_range.left)
      [] c.tag = "stream" ->
            rget_read_response_t(stream_t(SortedStream(i, c.keys)), c.truncated,
                                 rg.key_range, c.last_considered_key)
      [] c.tag = "atom" ->
            rget_read_response_t(atom_t(c.n), FALSE, rg.key_range, rg.key_range.left)
      [] c.tag = "length" ->
            rget_read_response_t(length_t(c.n), FALSE, rg.key_range, rg.key_range.left)
      [] c.tag = "inserted" ->
            rget_read_response_t(inserted_t(c.n), FALSE, rg.key_range, rg.key_range.left)
      [] c.tag = "groups" ->
            rget_read_response_t(groups_t(c.groups), FALSE, rg.key_range, rg.key_range.left)

(* ------------------------- query-language eval ------------------------- *)

\* eval(term, env, backtrace): a value, or a thrown runtime_exc_t
Returned(v) == [thrown |-> FALSE, value |-> v]
Thrown(m) == [thrown |-> TRUE, value |-> runtime_exc_t(m)]

eval_base(base) ==
    IF base = "zero" THEN Returned(0) ELSE Thrown("eval")

eval_body(body, var1, var2) ==
    CASE body = "add" -> Returned(var1 + var2)
      [] body = "max" -> Returned(IF var1 >= var2 THEN var1 ELSE var2)
      [] body = "sub" -> Returned(var1 - var2)
      [] body = "throw" -> Thrown("eval")

(* ------------------------- unshard of range reads ---------------------- *)

\* lines 210-214 and 393-397: the response before the try block
rget_initial_response(rg) ==
    rget_read_response_t(stream_t(<<>>), FALSE, get_region(rg).inner,
                         get_region(rg).inner.left)

RECURSIVE first_thrown_last(_, _)
\* mutant: the last piece that threw wins
first_thrown_last(rs, i) ==
    IF i > Len(rs) THEN NoVal
    ELSE LET rest == first_thrown_last(rs, i + 1)
         IN IF rest # NoVal THEN rest
            ELSE IF rs[i].result.tag = "runtime_exc" THEN rs[i].result
            ELSE NoVal

RECURSIVE first_thrown(_, _)
\* lines 219-227 and 402-410: the first piece, from index i on, that threw
first_thrown(rs, i) ==
    IF i > Len(rs) THEN NoVal
    ELSE IF rs[i].result.tag = "runtime_exc" THEN rs[i].result
    ELSE first_thrown(rs, i + 1)

RECURSIVE unshard_stream_loop_last(_, _, _)
\* mutant: the last piece's last_considered_key wins
unshard_stream_loop_last(rs, i, acc) ==
    IF i > Len(rs) THEN acc
    ELSE unshard_stream_loop_last(rs, i + 1,
            [acc EXCEPT
                !.result = stream_t(acc.result.stream \o rs[i].result.stream),
                !.truncated = acc.truncated \/ rs[i].truncated,
                !.last_considered_key = rs[i].last_considered_key])

RECURSIVE unshard_stream_loop(_, _, _)
\* lines 233-245: concatenate, OR truncated, maximum of last_considered_key
unshard_stream_loop(rs, i, acc) ==
    IF i > Len(rs) THEN acc
    ELSE unshard_stream_loop(rs, i + 1,
            [acc EXCEPT
                !.result = stream_t(acc.result.stream \o rs[i].result.stream),
                !.truncated = acc.truncated \/ rs[i].truncated,
                !.last_considered_key =
                    IF acc.last_considered_key < rs[i].last_considered_key
                    THEN rs[i].last_considered_key
                    ELSE acc.last_considered_key])

RECURSIVE reduction_loop_short(_, _, _, _)
\* mutant: the loop stops before the last piece
reduction_loop_short(rs, i, body, acc) ==
    IF i >= Len(rs) \/ acc.thrown THEN acc
    ELSE reduction_loop_short(rs, i + 1, body, eval_body(body, acc.value, rs[i].result.atom))

RECURSIVE reduction_loop(_, _, _, _)
\* lines 278-289 and 512-523: fold the pieces' atoms with the reduction body
reduction_loop(rs, i, body, acc) ==
    IF i > Len(rs) \/ acc.thrown THEN acc
    ELSE reduction_loop(rs, i + 1, body, eval_body(body, acc.value, rs[i].result.atom))

\* lines 270-289 and 504-523
unshard_reduction(rg, rs, init) ==
    LET r == reduction_loop(rs, 1, rg.terminal.body, eval_base(rg.terminal.base))
    IN [status |-> "returned",
        response |-> [init EXCEPT !.result = IF r.thrown THEN r.value ELSE atom_t(r.value)]]

\* get_with_default(map, key, default)
get_with_default(m, k, d) == IF k \in DOMAIN m THEN m[k] ELSE d

RECURSIVE gmr_groups_loop_overwrite(_, _, _, _, _)
\* mutant: var1 is always bound to eval(base), the merged value is not read
gmr_groups_loop_overwrite(groups, js, base, body, res_groups) ==
    IF js = {} THEN Returned(res_groups)
    ELSE LET j == CHOOSE x \in js : \A y \in js : x <= y
             b == eval_base(base)
         IN IF b.thrown THEN b
            ELSE LET v == eval_body(body, b.value, groups[j])
                 IN IF v.thrown THEN v
                    ELSE gmr_groups_loop_overwrite(groups, js \ {j}, base, body,
                            [k \in DOMAIN res_groups \cup {j} |->
                                IF k = j THEN v.value ELSE res_groups[k]])

RECURSIVE gmr_groups_loop(_, _, _, _, _)
\* lines 257-265 and 491-499: the groups j of one piece, in map order; js are
\* the group keys not yet visited
gmr_groups_loop(groups, js, base, body, res_groups) ==
    IF js = {} THEN Returned(res_groups)
    ELSE LET j == CHOOSE x \in js : \A y \in js : x <= y
             b == eval_base(base)
         IN IF b.thrown THEN b
            ELSE LET v == eval_body(body, get_with_default(res_groups, j, b.value), groups[j])
                 IN IF v.thrown THEN v
                    ELSE gmr_groups_loop(groups, js \ {j}, base, body,
                            [k \in DOMAIN res_groups \cup {j} |->
                                IF k = j THEN v.value ELSE res_groups[k]])

RECURSIVE gmr_loop(_, _, _, _, _)
\* lines 250-266 and 484-500: the pieces in input order
gmr_loop(rs, i, base, body, res_groups) ==
    IF i > Len(rs) THEN Returned(res_groups)
    ELSE LET g == rs[i].result.groups
             r == gmr_groups_loop(g, DOMAIN g, base, body, res_groups)
         IN IF r.thrown THEN r ELSE gmr_loop(rs, i + 1, base, body, r.value)

\* lines 246-267 and 480-501
unshard_gmr(rg, rs, init) ==
    LET r == gmr_loop(rs, 1, rg.terminal.base, rg.terminal.body, <<>>)
    IN [status |-> "returned",
        response |-> [init EXCEPT !.result = IF r.thrown THEN r.value ELSE groups_t(r.value)]]

\* lines 291-293, 304-306, 525-527, 538-540: result is assigned atom_t() and
\* boost::get<length_t> / boost::get<inserted_t> of it is a null pointer, which
\* is written through.  nd is what the build makes of that: the write faults,
\* or the stores are dropped and result stays the empty atom.
NullDerefOutcomes == {"segfault", "store_elided"}

unshard_null_deref(init, nd) ==
    IF nd = "segfault" THEN [status |-> "crashed", response |-> NoVal]
    ELSE [status |-> "returned", response |-> [init EXCEPT !.result = atom_t("null")]]

\* unshard_visitor_t::operator()(const rget_read_t &)
unshard_rget(rg, rs, nd) ==
    LET init == rget_initial_response(rg)
        e == first_thrown(rs, 1)
    IN IF e # NoVal THEN [status |-> "returned", response |-> [init EXCEPT !.result = e]]
       ELSE CASE rg.terminal.tag = "none" ->
                    [status |-> "returned", response |-> unshard_stream_loop(rs, 1, init)]
              [] rg.terminal.tag = "GroupedMapReduce" -> unshard_gmr(rg, rs, init)
              [] rg.terminal.tag = "Reduction" -> unshard_reduction(rg, rs, init)
              [] rg.terminal.tag = "Length" -> unshard_null_deref(init, nd)
              [] rg.terminal.tag = "ForEach" -> unshard_null_deref(init, nd)

RECURSIVE multistore_last_considered_key_all(_, _, _, _)
\* mutant: every piece lowers the key, whatever its stream size
multistore_last_considered_key_all(rg, rs, i, lck) ==
    IF i > Len(rs) THEN lck
    ELSE multistore_last_considered_key_all(rg, rs, i + 1,
            IF rs[i].last_considered_key < lck THEN rs[i].last_considered_key ELSE lck)

RECURSIVE multistore_last_considered_key_atleast(_, _, _, _)
\* mutant: a piece lowers the key when its stream has at least `maximum` entries
multistore_last_considered_key_atleast(rg, rs, i, lck) ==
    IF i > Len(rs) THEN lck
    ELSE multistore_last_considered_key_atleast(rg, rs, i + 1,
            IF Len(rs[i].result.stream) >= rg.maximum
            THEN (IF rs[i].last_considered_key < lck THEN rs[i].last_considered_key ELSE lck)
            ELSE lck)

RECURSIVE multistore_last_considered_key(_, _, _, _)
\* lines 444-459: the minimum over the pieces whose stream has `maximum` entries
multistore_last_considered_key(rg, rs, i, lck) ==
    IF i > Len(rs) THEN lck
    ELSE multistore_last_considered_key(rg, rs, i + 1,
            IF Len(rs[i].result.stream) = rg.maximum
            THEN (IF rs[i].last_considered_key < lck THEN rs[i].last_considered_key ELSE lck)
            ELSE lck)

RECURSIVE filter_stream_strict(_, _, _, _)
\* mutant: the pair at the last considered key itself is dropped
filter_stream_strict(stream, j, lck, res_stream) ==
    IF j > Len(stream) THEN res_stream
    ELSE filter_stream_strict(stream, j + 1, lck,
            IF stream[j][1] < lck THEN Append(res_stream, stream[j]) ELSE res_stream)

RECURSIVE filter_stream(_, _, _, _)
\* lines 468-475: push back the pairs not past the last considered key
filter_stream(stream, j, lck, res_stream) ==
    IF j > Len(stream) THEN res_stream
    ELSE filter_stream(stream, j + 1, lck,
            IF stream[j][1] <= lck THEN Append(res_stream, stream[j]) ELSE res_stream)

RECURSIVE multistore_stream_loop(_, _, _)
\* lines 461-479
multistore_stream_loop(rs, i, acc) ==
    IF i > Len(rs) THEN acc
    ELSE multistore_stream_loop(rs, i + 1,
            [acc EXCEPT
                !.result = stream_t(filter_stream(rs[i].result.stream, 1,
                                                  acc.last_considered_key,
                                                  acc.result.stream)),
                !.truncated = acc.truncated \/ rs[i].truncated])

\* lines 412-479
multistore_unshard_stream(rg, rs, init) ==
    LET lck == multistore_last_considered_key(rg, rs, 1,
                                              last_key_in_range(get_region(rg).inner))
    IN multistore_stream_loop(rs, 1, [init EXCEPT !.last_considered_key = lck])

\* multistore_unshard_visitor_t::operator()(const rget_read_t &)
multistore_unshard_rget(rg, rs, nd) ==
    LET init == rget_initial_response(rg)
        e == first_thrown(rs, 1)
    IN IF e # NoVal THEN [status |-> "returned", response |-> [init EXCEPT !.result = e]]
       ELSE CASE rg.terminal.tag = "none" ->
                    [status |-> "returned", response |-> multistore_unshard_stream(rg, rs, init)]
              [] rg.terminal.tag = "GroupedMapReduce" -> unshard_gmr(rg, rs, init)
              [] rg.terminal.tag = "Reduction" -> unshard_reduction(rg, rs, init)
              [] rg.terminal.tag = "Length" -> unshard_null_deref(init, nd)
              [] rg.terminal.tag = "ForEach" -> unshard_null_deref(init, nd)

(* ------------------ specification: unshard of range reads -------------- *)

InitRget ==
    /\ read \in RgetReads
    /\ \E n \in 0..MaxPieces : \E c \in [1..n -> PieceChoices(read)] :
            responses = [i \in 1..n |-> Piece(read, i, c[i])]
    /\ region = NoVal
    /\ sharded = NoVal
    /\ response_out = NoVal
    /\ pc = "start"
    /\ NoOp /\ NoStores

\* read_t::unshard on a range read
UnshardRget ==
    /\ pc = "start"
    /\ read.type = "rget"
    /\ \E nd \in NullDerefOutcomes : response_out' = unshard_rget(read, responses, nd)
    /\ pc' = "unshard"
    /\ UNCHANGED <<read, region, responses, sharded>>
    /\ UNCHANGED extVars

\* read_t::multistore_unshard on a range read
MultistoreUnshardRget ==
    /\ pc = "start"
    /\ read.type = "rget"
    /\ \E nd \in NullDerefOutcomes : response_out' = multistore_unshard_rget(read, responses, nd)
    /\ pc' = "multistore_unshard"
    /\ UNCHANGED <<read, region, responses, sharded>>
    /\ UNCHANGED extVars

NextRget == UnshardRget \/ MultistoreUnshardRget

SpecRget == InitRget /\ [][NextRget]_vars

(* ------------------------- claims on range reads ----------------------- *)

NoTerminal == read.terminal.tag = "none"

NoErrorPiece == \A i \in 1..Len(responses) : responses[i].result.tag # "runtime_exc"

SetMin(S) == CHOOSE x \in S : \A y \in S : x <= y

\* the pieces whose stream has exactly `maximum` entries
FullPieces == {i \in 1..Len(responses) : Len(responses[i].result.stream) = read.maximum}

Merged == response_out.response

\* C2: in multistore_unshard of a range read with no terminal and no error piece,
\* the merged last_considered_key is the minimum of the key range's last key and
\* the last_considered_key of every piece whose stream has exactly `maximum`
\* entries; pieces with another stream size never lower it.
C2_MergedLastConsideredKey ==
    (pc = "multistore_unshard" /\ NoTerminal /\ NoErrorPiece) =>
        Merged.last_considered_key =
            SetMin({last_key_in_range(read.key_range)}
                   \cup {responses[i].last_considered_key : i \in FullPieces})

\* a full piece sets the watermark while a piece that is not full and reports
\* a smaller key is ignored
C2_Witness ==
    /\ pc = "multistore_unshard" /\ NoTerminal /\ NoErrorPiece
    /\ \E i \in FullPieces : \E j \in (1..Len(responses)) \ FullPieces :
          /\ Merged.last_considered_key = responses[i].last_considered_key
          /\ responses[j].last_considered_key < Merged.last_considered_key

RECURSIVE KeptPairs(_, _)
\* the pairs of the pieces from index i on, in input order, whose key is at most lck
KeptPairs(i, lck) ==
    IF i > Len(responses) THEN <<>>
    ELSE LET Keep(pair) == pair[1] <= lck
         IN SelectSeq(responses[i].result.stream, Keep) \o KeptPairs(i + 1, lck)

\* C3: in multistore_unshard of a range read with no terminal and no error piece,
\* the merged stream is exactly the pieces' pairs whose key is at most the merged
\* last_considered_key, so it holds no key greater than that key.
C3_StreamTrimmedToLastConsideredKey ==
    (pc = "multistore_unshard" /\ NoTerminal /\ NoErrorPiece) =>
        /\ Merged.result.tag = "stream"
        /\ Merged.result.stream = KeptPairs(1, Merged.last_considered_key)
        /\ \A j \in 1..Len(Merged.result.stream) :
              Merged.result.stream[j][1] <= Merged.last_considered_key

\* one piece's pair is dropped for lying past the watermark, a pair at the
\* watermark itself is kept
C3_Witness ==
    /\ pc = "multistore_unshard" /\ NoTerminal /\ NoErrorPiece
    /\ \E i \in 1..Len(responses) : \E j \in 1..Len(responses[i].result.stream) :
          responses[i].result.stream[j][1] > Merged.last_considered_key
    /\ \E j \in 1..Len(Merged.result.stream) :
          Merged.result.stream[j][1] = Merged.last_considered_key

\* C4 as stated: with maximum = 0 and no terminal the merged last_considered_key
\* is the key range's upper bound, whatever the pieces report.
C4_MaximumZeroKeepsUpperBound ==
    (pc = "multistore_unshard" /\ NoTerminal /\ NoErrorPiece /\ read.maximum = 0) =>
        Merged.last_considered_key = last_key_in_range(read.key_range)

EmptyPieces == {i \in 1..Len(responses) : responses[i].result.stream = <<>>}

\* C4 (amended): with maximum = 0, no terminal and no error piece, the merged
\* last_considered_key is the minimum of the key range's last key and the
\* last_considered_key of every piece whose stream is empty; pieces with a
\* non-empty stream never lower it.
C4_MaximumZeroMinOverEmptyPieces ==
    (pc = "multistore_unshard" /\ NoTerminal /\ NoErrorPiece /\ read.maximum = 0) =>
        /\ Merged.last_considered_key =
              SetMin({last_key_in_range(read.key_range)}
                     \cup {responses[i].last_considered_key : i \in EmptyPieces})
        /\ (EmptyPieces = {} =>
              Merged.last_considered_key = last_key_in_range(read.key_range))

\* maximum = 0: an empty piece lowers the watermark below the upper bound
\* while a non-empty piece is merged with it
C4_Witness ==
    /\ pc = "multistore_unshard" /\ NoTerminal /\ NoErrorPiece /\ read.maximum = 0
    /\ Merged.last_considered_key < last_key_in_range(read.key_range)
    /\ \E i \in EmptyPieces : Merged.last_considered_key = responses[i].last_considered_key
    /\ (1..Len(responses)) \ EmptyPieces # {}

(* -------------------- claims on terminals and errors ------------------- *)

Unsharded == pc \in {"unshard", "multistore_unshard"}

\* the permutations of 1..n
Perms(n) == {f \in [1..n -> 1..n] : \A i, j \in 1..n : f[i] = f[j] => i = j}

Permuted(rs, f) == [i \in 1..Len(rs) |-> rs[f[i]]]

CommutativeAssociativeBodies == {"add", "max"}

OrderFreeTerminal ==
    \/ read.terminal.tag \in {"Length", "ForEach"}
    \/ (read.terminal.tag = "Reduction" /\ read.terminal.body \in CommutativeAssociativeBodies)

\* the merge of the pieces in the order f gives what this merge gave
SameMergeUnder(f) ==
    \E nd \in NullDerefOutcomes :
        multistore_unshard_rget(read, Permuted(responses, f), nd) = response_out

ThrownMessages ==
    {responses[i].result.message :
        i \in {j \in 1..Len(responses) : responses[j].result.tag = "runtime_exc"}}

RECURSIVE SumOf(_, _)
SumOf(field, i) ==
    IF i > Len(responses) THEN 0 ELSE responses[i].result[field] + SumOf(field, i + 1)

\* C9: for unshard and multistore_unshard of a range read with terminal Length
\* (ForEach) and no error piece, the merge completes and the merged result is
\* a Length (Inserted) value holding the sum of the pieces' length (inserted)
\* fields.
C9_LengthAndInsertedAreSummed ==
    (Unsharded /\ NoErrorPiece) =>
        /\ read.terminal.tag = "Length" =>
              /\ response_out.status = "returned"
              /\ Merged.result = length_t(SumOf("length", 1))
        /\ read.terminal.tag = "ForEach" =>
              /\ response_out.status = "returned"
              /\ Merged.result = inserted_t(SumOf("inserted", 1))

FirstErrorPiece ==
    CHOOSE i \in 1..Len(responses) :
        /\ responses[i].result.tag = "runtime_exc"
        /\ \A j \in 1..(i - 1) : responses[j].result.tag # "runtime_exc"

\* eval throws while the pieces of a Reduction are merged
EvalThrowsInMerge ==
    /\ read.terminal.tag = "Reduction"
    /\ \/ read.terminal.base = "throw"
       \/ (read.terminal.body = "throw" /\ Len(responses) >= 1)

Pow2(n) == 2 ^ n

BitLen(n) == IF n = 0 THEN 0 ELSE CHOOSE L \in 1..30 : Pow2(L - 1) <= n /\ n < Pow2(L)

DoubleZero == [a |-> 0, b |-> 0, d |-> 0, exp |-> 0]

\* the next double up
DoubleInc(x) ==
    IF x.d + 1 < Pow2(18) THEN [x EXCEPT !.d = x.d + 1]
    ELSE IF x.b + 1 < Pow2(18) THEN [x EXCEPT !.d = 0, !.b = x.b + 1]
    ELSE IF x.a + 1 < Pow2(17) THEN [x EXCEPT !.d = 0, !.b = 0, !.a = x.a + 1]
    ELSE [a |-> Pow2(16), b |-> 0, d |-> 0, exp |-> x.exp + 1]

\* static_cast<double>(t) / static_cast<double>(r) for integers 0 <= t < 2^12
\* and 0 < r < 2^12
DoubleDiv(t, r) ==
    IF t = 0 THEN DoubleZero
    ELSE
    LET lt == BitLen(t)
        lr == BitLen(r)
        t0 == IF lr > lt THEN t * Pow2(lr - lt) ELSE t
        r0 == IF lt > lr THEN r * Pow2(lt - lr) ELSE r
        tn == IF t0 < r0 THEN 2 * t0 ELSE t0
        e0 == (lt - lr) - (IF t0 < r0 THEN 1 ELSE 0)
        \* r0 <= tn < 2 * r0: the quotient is in [1, 2)
        rem0 == tn - r0
        qa == (rem0 * Pow2(16)) \div r0
        rem1 == (rem0 * Pow2(16)) % r0
        qb == (rem1 * Pow2(18)) \div r0
        rem2 == (rem1 * Pow2(18)) % r0
        qd == (rem2 * Pow2(18)) \div r0
        rem3 == (rem2 * Pow2(18)) % r0
        q == [a |-> Pow2(16) + qa, b |-> qb, d |-> qd, exp |-> e0 - 52]
    IN IF 2 * rem3 > r0 \/ (2 * rem3 = r0 /\ qd % 2 = 1) THEN DoubleInc(q) ELSE q

\* c * x for an integer 0 <= c < 2^12 (converted exactly) and a double x
DoubleMulInt(c, x) ==
    IF c = 0 \/ x = DoubleZero THEN DoubleZero
    ELSE
    LET pd == c * x.d
        pb == c * x.b + (pd \div Pow2(18))
        pa == c * x.a + (pb \div Pow2(18))
        b1 == pb % Pow2(18)
        d1 == pd % Pow2(18)
        s == BitLen(pa) - 17
        dropped == d1 % Pow2(s)
        y == [a |-> pa \div Pow2(s),
              b |-> (b1 \div Pow2(s)) + (pa % Pow2(s)) * Pow2(18 - s),
              d |-> (d1 \div Pow2(s)) + (b1 % Pow2(s)) * Pow2(18 - s),
              exp |-> x.exp + s]
    IN IF s = 0 THEN y
       ELSE IF dropped > Pow2(s - 1) \/ (dropped = Pow2(s - 1) /\ y.d % 2 = 1)
       THEN DoubleInc(y) ELSE y

\* static_cast<int>(x) for a double 0 <= x < 2^30: truncation
DoubleToInt(x) ==
    LET k == 0 - x.exp
    IN IF x = DoubleZero \/ k >= 53 THEN 0
       ELSE IF k >= 36 THEN x.a \div Pow2(k - 36)
       ELSE x.a * Pow2(36 - k) + (x.b \div Pow2(k - 18))

\* x >= 1.0
DoubleAtLeastOne(x) == x # DoubleZero /\ x.exp >= 0 - 52

(* ------------------- unshard of distribution reads --------------------- *)

\* distribution_read_response_t: key_counts is a function from its keys to counts
distribution_read_response_t(kc) == [key_counts |-> kc]

EmptyKeyCounts == [k \in {} |-> 0]

size(kc) == Cardinality(DOMAIN kc)

RECURSIVE SumCounts(_, _)
\* lines 578-583: tmp_total_keys
SumCounts(kc, S) ==
    IF S = {} THEN 0
    ELSE LET k == CHOOSE x \in S : TRUE IN kc[k] + SumCounts(kc, S \ {k})

tmp_total_keys(kc) == SumCounts(kc, DOMAIN kc)

RECURSIVE dist_loop_last(_, _, _)
\* mutant: a piece as large as the one held replaces it
dist_loop_last(rs, i, st) ==
    IF i > Len(rs) THEN st
    ELSE LET piece == rs[i].key_counts
             tmp == tmp_total_keys(piece)
             take == size(st.response.key_counts) <= size(piece)
         IN dist_loop_last(rs, i + 1,
                [response |-> IF take THEN rs[i] ELSE st.response,
                 total_num_keys |-> st.total_num_keys + tmp,
                 total_keys_in_res |-> IF take THEN tmp ELSE st.total_keys_in_res])

RECURSIVE dist_loop_assign(_, _, _)
\* mutant: total_num_keys is assigned, not accumulated
dist_loop_assign(rs, i, st) ==
    IF i > Len(rs) THEN st
    ELSE LET piece == rs[i].key_counts
             tmp == tmp_total_keys(piece)
             take == size(st.response.key_counts) < size(piece)
         IN dist_loop_assign(rs, i + 1,
                [response |-> IF take THEN rs[i] ELSE st.response,
                 total_num_keys |-> tmp,
                 total_keys_in_res |-> IF take THEN tmp ELSE st.total_keys_in_res])

RECURSIVE dist_loop(_, _, _)
\* lines 574-591: sum every count, keep the piece with more keys than the one held
dist_loop(rs, i, st) ==
    IF i > Len(rs) THEN st
    ELSE LET piece == rs[i].key_counts
             tmp == tmp_total_keys(piece)
             take == size(st.response.key_counts) < size(piece)
         IN dist_loop(rs, i + 1,
                [response |-> IF take THEN rs[i] ELSE st.response,
                 total_num_keys |-> st.total_num_keys + tmp,
                 total_keys_in_res |-> IF take THEN tmp ELSE st.total_keys_in_res])

\* lines 567-573: the state before the loop
dist_totals(rs) ==
    dist_loop(rs, 1, [response |-> distribution_read_response_t(EmptyKeyCounts),
                      total_num_keys |-> 0, total_keys_in_res |-> 0])

\* mutant: the counts are left as they are
scale_counts_unscaled(kc, total_num_keys, total_keys_in_res) == kc

\* lines 597-605: every count times the double scale factor, cast to int
scale_counts(kc, total_num_keys, total_keys_in_res) ==
    LET scale_factor == DoubleDiv(total_num_keys, total_keys_in_res)
    IN [k \in DOMAIN kc |-> DoubleToInt(DoubleMulInt(kc[k], scale_factor))]

\* line 565: the first keys of pieces 0 and 1 are compared; begin() of an empty
\* map is not dereferenceable
hash_sharded_rassert(rs) ==
    IF rs[1].key_counts = EmptyKeyCounts \/ rs[2].key_counts = EmptyKeyCounts
    THEN "undefined"
    ELSE IF SetMin(DOMAIN rs[1].key_counts) = SetMin(DOMAIN rs[2].key_counts)
    THEN "passed" ELSE "failed"

\* multistore_unshard_visitor_t::operator()(const distribution_read_t &)
multistore_unshard_distribution(rs) ==
    LET st == dist_totals(rs)
    IN [status |-> "returned",
        rassert |-> hash_sharded_rassert(rs),
        response |->
            IF st.total_keys_in_res = 0 THEN st.response
            ELSE distribution_read_response_t(
                    scale_counts(st.response.key_counts, st.total_num_keys,
                                 st.total_keys_in_res))]

(* -------------- specification: unshard of distribution reads ----------- *)

\* the counts a key of a piece can have
CountValues == {0, 4, 11}

KeyCounts == UNION {[S -> CountValues] : S \in SUBSET Keys}

\* scenario 4 of the specification: {a:10, b:10, c:10} and {a:40, b:60}
ScenarioPieces ==
    <<distribution_read_response_t([k \in {0, 1, 2} |-> 10]),
      distribution_read_response_t([k \in {0, 1} |-> IF k = 0 THEN 40 ELSE 60])>>

InitDist ==
    /\ read = distribution_read_t(key_range_t(0, MaxKey + 1))
    /\ \/ \E n \in 2..MaxDistPieces : \E c \in [1..n -> KeyCounts] :
            responses = [i \in 1..n |-> distribution_read_response_t(c[i])]
       \/ responses = ScenarioPieces
    /\ region = NoVal
    /\ sharded = NoVal
    /\ response_out = NoVal
    /\ pc = "start"
    /\ NoOp /\ NoStores

\* read_t::multistore_unshard on a distribution read
MultistoreUnshardDistribution ==
    /\ pc = "start"
    /\ read.type = "distribution"
    /\ Len(responses) > 1
    /\ response_out' = multistore_unshard_distribution(responses)
    /\ pc' = "multistore_unshard"
    /\ UNCHANGED <<read, region, responses, sharded>>
    /\ UNCHANGED extVars

NextDist == MultistoreUnshardDistribution

SpecDist == InitDist /\ [][NextDist]_vars

(* -------------------- claims on distribution reads --------------------- *)

DistMerged == pc = "multistore_unshard" /\ read.type = "distribution"

MinSize == SetMin({size(responses[i].key_counts) : i \in 1..Len(responses)})

FirstLargestPiece ==
    CHOOSE i \in 1..Len(responses) :
        /\ \A j \in 1..Len(responses) :
              size(responses[j].key_counts) <= size(responses[i].key_counts)
        /\ \A j \in 1..(i - 1) :
              size(responses[j].key_counts) < size(responses[i].key_counts)

Selected == responses[FirstLargestPiece].key_counts

TotalNumKeys == dist_totals(responses).total_num_keys

TotalKeysInRes == dist_totals(responses).total_keys_in_res

\* the integer truncation of count * total_num_keys / total_keys_in_res
ExactScaled(count) == (count * TotalNumKeys) \div TotalKeysInRes

C7_ScaleFactorAtLeastOne ==
    (DistMerged /\ TotalKeysInRes # 0) =>
        /\ TotalKeysInRes > 0
        /\ TotalNumKeys >= TotalKeysInRes
        /\ DoubleAtLeastOne(DoubleDiv(TotalNumKeys, TotalKeysInRes))

\* the scaling step is reached with pieces outside the selected one adding keys
C7_Witness ==
    /\ DistMerged
    /\ TotalKeysInRes > 0
    /\ TotalNumKeys > TotalKeysInRes
    /\ \E k \in DOMAIN Selected : response_out.response.key_counts[k] > Selected[k]

(* ------------- specification: unshard of grouped map-reduce ------------ *)

\* the pieces {g1:2, g2:5} and {g1:3, g3:1}
GmrScenarioPieces ==
    <<(1 :> 2) @@ (2 :> 5), (1 :> 3) @@ (3 :> 1)>>

InitGmr ==
    /\ \E t \in GmrTerminals : read = rget_read_t(key_range_t(0, MaxKey + 1), 0, t)
    /\ \/ \E n \in 0..MaxPieces : \E c \in [1..n -> PieceChoices(read)] :
            responses = [i \in 1..n |-> Piece(read, i, c[i])]
       \/ responses = [i \in 1..2 |->
                        Piece(read, i, [tag |-> "groups", groups |-> GmrScenarioPieces[i]])]
    /\ region = NoVal
    /\ sharded = NoVal
    /\ response_out = NoVal
    /\ pc = "start"
    /\ NoOp /\ NoStores

NextGmr == UnshardRget \/ MultistoreUnshardRget

SpecGmr == InitGmr /\ [][NextGmr]_vars

\* the group keys of all pieces
PieceGroupKeys == UNION {DOMAIN responses[i].result.groups : i \in 1..Len(responses)}

RECURSIVE GroupFold(_, _, _)
\* the reduction of group g over the pieces i.. that hold it, from acc
GroupFold(g, i, acc) ==
    IF i > Len(responses) THEN acc
    ELSE IF g \in DOMAIN responses[i].result.groups
         THEN GroupFold(g, i + 1,
                        eval_body(read.terminal.body, acc, responses[i].result.groups[g]).value)
         ELSE GroupFold(g, i + 1, acc)

RECURSIVE GroupSum(_, _)
GroupSum(g, i) ==
    IF i > Len(responses) THEN 0
    ELSE GroupSum(g, i + 1)
         + (IF g \in DOMAIN responses[i].result.groups THEN responses[i].result.groups[g] ELSE 0)

\* no evaluation of base or body throws during the merge
GmrEvalReturns ==
    PieceGroupKeys = {} \/ (read.terminal.base = "zero" /\ read.terminal.body # "throw")

\* C11: unshard and multistore_unshard of a GroupedMapReduce range read fold each
\* group over the pieces in input order, starting from eval(base) at the group's
\* first occurrence; the merged group keys are the union of the pieces' group keys,
\* and with base 0 and body var1 + var2 each merged value is the group's sum.
C11_GroupedMapReduceMerge ==
    (pc \in {"unshard", "multistore_unshard"} /\ read.terminal.tag = "GroupedMapReduce"
        /\ NoErrorPiece /\ GmrEvalReturns)
    => /\ response_out.status = "returned"
       /\ response_out.response.result.tag = "groups"
       /\ DOMAIN response_out.response.result.groups = PieceGroupKeys
       /\ \A g \in PieceGroupKeys :
            /\ response_out.response.result.groups[g]
                    = GroupFold(g, 1, eval_base(read.terminal.base).value)
            /\ read.terminal.body = "add"
                    => response_out.response.result.groups[g] = GroupSum(g, 1)

\* the pieces {g1:2, g2:5} and {g1:3, g3:1} have merged to {g1:5, g2:5, g3:1}
C11_Witness ==
    /\ pc \in {"unshard", "multistore_unshard"}
    /\ read.terminal = [tag |-> "GroupedMapReduce", base |-> "zero", body |-> "add"]
    /\ Len(responses) = 2
    /\ responses[1].result = groups_t(GmrScenarioPieces[1])
    /\ responses[2].result = groups_t(GmrScenarioPieces[2])
    /\ response_out.response.result = groups_t((1 :> 5) @@ (2 :> 5) @@ (3 :> 1))

(* -------------------- claims on single-store unshard ------------------- *)

RECURSIVE ConcatStreams(_)
\* the streams of pieces i.. one after the other
ConcatStreams(i) ==
    IF i > Len(responses) THEN <<>>
    ELSE responses[i].result.stream \o ConcatStreams(i + 1)

SetMax(S) == CHOOSE x \in S : \A y \in S : y <= x

\* C12: single-store unshard of a range read with no terminal and no error piece
\* returns the concatenation of the pieces' streams in input order (maximum is not
\* applied), truncated = OR of the pieces' flags, and last_considered_key = the
\* maximum of the pieces' last_considered_key, never below the range's left bound.
C12_UnshardConcatenates ==
    (pc = "unshard" /\ NoTerminal /\ NoErrorPiece)
    => /\ response_out.status = "returned"
       /\ Merged.result = stream_t(ConcatStreams(1))
       /\ Merged.truncated = (\E i \in 1..Len(responses) : responses[i].truncated)
       /\ Merged.last_considered_key =
            SetMax({read.key_range.left}
                   \cup {responses[i].last_considered_key : i \in 1..Len(responses)})

\* two non-empty pieces whose pairs outnumber maximum; only the second is
\* truncated and the first reports the larger last_considered_key
C12_Witness ==
    /\ pc = "unshard" /\ NoTerminal /\ NoErrorPiece
    /\ Len(responses) = 2
    /\ Len(responses[1].result.stream) > 0 /\ Len(responses[2].result.stream) > 0
    /\ Len(Merged.result.stream) > read.maximum
    /\ ~responses[1].truncated /\ responses[2].truncated
    /\ responses[2].last_considered_key < responses[1].last_considered_key
    /\ Merged.last_considered_key = responses[1].last_considered_key

(* ------------------ claims on the multistore stream -------------------- *)

\* the keys of the pairs of piece i
StreamKeys(i) ==
    {responses[i].result.stream[j][1] : j \in 1..Len(responses[i].result.stream)}

\* the pieces are hash shards: no key is held by two of them
HashShardPieces ==
    \A i, j \in 1..Len(responses) : i # j => StreamKeys(i) \cap StreamKeys(j) = {}

\* no piece's stream reaches `maximum` entries
NoPieceReachesMaximum ==
    \A i \in 1..Len(responses) : Len(responses[i].result.stream) < read.maximum

\* all pairs of all pieces
AllPairs ==
    UNION {{responses[i].result.stream[j] : j \in 1..Len(responses[i].result.stream)} :
            i \in 1..Len(responses)}

\* C13: when no hash shard's stream reaches `maximum`, multistore_unshard of a range
\* read without terminal returns all pairs of all shards in ascending key order,
\* last_considered_key = the range's upper bound and truncated = OR of the flags,
\* whichever shard holds which key and in whatever order the responses come.
C13_MultistoreStreamAscending ==
    (pc = "multistore_unshard" /\ NoTerminal /\ NoErrorPiece
        /\ HashShardPieces /\ NoPieceReachesMaximum)
    => /\ response_out.status = "returned"
       /\ {Merged.result.stream[j] : j \in 1..Len(Merged.result.stream)} = AllPairs
       /\ Len(Merged.result.stream) = Cardinality(AllPairs)
       /\ \A j \in 1..(Len(Merged.result.stream) - 1) :
            Merged.result.stream[j][1] < Merged.result.stream[j + 1][1]
       /\ Merged.last_considered_key = last_key_in_range(read.key_range)
       /\ Merged.truncated = (\E i \in 1..Len(responses) : responses[i].truncated)

(* ---------------------- writes and backfill chunks --------------------- *)

\* region_intersection: componentwise
key_range_intersection(a, b) ==
    key_range_t(IF a.left >= b.left THEN a.left ELSE b.left,
                IF a.right <= b.right THEN a.right ELSE b.right)

region_intersection(a, b) ==
    region_t3(IF a.beg >= b.beg THEN a.beg ELSE b.beg,
              IF a.end <= b.end THEN a.end ELSE b.end,
              key_range_intersection(a.inner, b.inner))

\* documents written and recencies (repli_timestamp_t) of records
Values == {0, 1}
Recencies == {0, 1}

point_write_t(k, d) == [type |-> "point_write", key |-> k, data |-> d]
point_modify_t(k, f) == [type |-> "point_modify", key |-> k, op |-> f]
point_delete_t(k) == [type |-> "point_delete", key |-> k]

Writes ==
    {point_write_t(k, d) : k \in Keys, d \in Values}
    \cup {point_modify_t(k, f) : k \in Keys, f \in {"update", "mutate"}}
    \cup {point_delete_t(k) : k \in Keys}

\* write_t::get_region
w_get_region(w) == monokey_region(w.key)

\* the rassert of w_shard_visitor
w_shard_rassert(w, reg) == monokey_region(w.key) = reg

\* write_t::shard
w_shard(w, reg) == w

\* backfill_atom_t and the three kinds of backfill_chunk_t
backfill_atom_t(k, v, rec) == [key |-> k, value |-> v, recency |-> rec]
delete_key_t(k, rec) == [type |-> "delete_key", key |-> k, recency |-> rec]
delete_range_t(reg) == [type |-> "delete_range", range |-> reg]
key_value_pair_t(atom) == [type |-> "key_value_pair", backfill_atom |-> atom]

BackfillChunks ==
    {delete_key_t(k, rec) : k \in Keys, rec \in Recencies}
    \cup {delete_range_t(reg) : reg \in Regions}
    \cup {key_value_pair_t(backfill_atom_t(k, v, rec)) :
            k \in Keys, v \in Values, rec \in Recencies}

\* backfill_chunk_t::get_region
backfill_chunk_get_region(c) ==
    CASE c.type = "delete_key" -> monokey_region(c.key)
      [] c.type = "delete_range" -> c.range
      [] c.type = "key_value_pair" -> monokey_region(c.backfill_atom.key)

\* the rasserts of backfill_chunk_shard_visitor_t
backfill_chunk_shard_rassert(c, reg) ==
    CASE c.type = "delete_key" -> region_is_superset(reg, backfill_chunk_get_region(c))
      [] c.type = "delete_range" -> ~region_is_empty(region_intersection(c.range, reg))
      [] c.type = "key_value_pair" -> region_is_superset(reg, backfill_chunk_get_region(c))

\* mutant: the sharded delete-range spans the whole hash universe
backfill_chunk_shard_whole_hash(c, reg) ==
    CASE c.type = "delete_key" -> c
      [] c.type = "delete_range" -> delete_range_t(region_t(region_intersection(c.range, reg).inner))
      [] c.type = "key_value_pair" -> c

\* backfill_chunk_t::shard
backfill_chunk_shard(c, reg) ==
    CASE c.type = "delete_key" -> c
      [] c.type = "delete_range" -> delete_range_t(region_intersection(c.range, reg))
      [] c.type = "key_value_pair" -> c

(* ------------ specification: sharding of every operation --------------- *)

Operations == Reads \cup Writes \cup BackfillChunks

IsRead(o) == o.type \in {"point", "rget", "distribution"}
IsWrite(o) == o.type \in {"point_write", "point_modify", "point_delete"}
IsBackfillChunk(o) == o.type \in {"delete_key", "delete_range", "key_value_pair"}

\* get_region of a read_t, a write_t or a backfill_chunk_t
op_get_region(o) ==
    IF IsRead(o) THEN get_region(o)
    ELSE IF IsWrite(o) THEN w_get_region(o)
    ELSE backfill_chunk_get_region(o)

InitOp ==
    /\ op \in Operations
    /\ region \in Regions
    /\ sharded = NoVal
    /\ pc = "start"
    /\ read = NoVal /\ responses = NoVal /\ response_out = NoVal
    /\ num_cpu_shards = NoVal
    /\ NoStores

\* read_t::shard; rassert records whether the assertions of the visitor pass
OpReadShard ==
    /\ pc = "start" /\ IsRead(op)
    /\ sharded' = [rassert |-> shard_rassert(op, region), value |-> shard(op, region)]
    /\ pc' = "sharded"
    /\ UNCHANGED <<read, region, responses, response_out, op, num_cpu_shards>>
    /\ UNCHANGED storeVars

\* write_t::shard
WriteShard ==
    /\ pc = "start" /\ IsWrite(op)
    /\ sharded' = [rassert |-> w_shard_rassert(op, region), value |-> w_shard(op, region)]
    /\ pc' = "sharded"
    /\ UNCHANGED <<read, region, responses, response_out, op, num_cpu_shards>>
    /\ UNCHANGED storeVars

\* backfill_chunk_t::shard
BackfillChunkShard ==
    /\ pc = "start" /\ IsBackfillChunk(op)
    /\ sharded' = [rassert |-> backfill_chunk_shard_rassert(op, region),
                   value |-> backfill_chunk_shard(op, region)]
    /\ pc' = "sharded"
    /\ UNCHANGED <<read, region, responses, response_out, op, num_cpu_shards>>
    /\ UNCHANGED storeVars

NextOp == OpReadShard \/ WriteShard \/ BackfillChunkShard

SpecOp == InitOp /\ [][NextOp]_vars

\* the operation has been sharded by its own region
ShardedByOwnRegion == pc = "sharded" /\ region = op_get_region(op)

\* C14 as stated: for every read, write and backfill chunk op,
\* shard(op, get_region(op)) passes all sharding assertions and returns op.
C14_ShardByOwnRegionIsIdentity ==
    ShardedByOwnRegion => (sharded.rassert /\ sharded.value = op)

\* C14, amended: for every read, write and backfill chunk op other than a
\* delete-range chunk with an empty region, shard(op, get_region(op)) passes all
\* sharding assertions and returns op in every field; for a delete-range chunk
\* with an empty region the assertion !region_is_empty fails.
C14_ShardByOwnRegionUnlessEmptyDeleteRange ==
    ShardedByOwnRegion
    => IF op.type = "delete_range" /\ region_is_empty(op.range)
       THEN ~sharded.rassert
       ELSE sharded.rassert /\ sharded.value = op

\* a delete-range chunk over part of the hash universe, sharded by its own region
C14_Witness ==
    /\ ShardedByOwnRegion
    /\ op.type = "delete_range"
    /\ ~region_is_empty(op.range)
    /\ op.range.beg > 0
    /\ sharded.rassert /\ sharded.value = op

(* ------------------------ cpu_sharding_subspace ------------------------ *)

\* key_range_t::universe()
key_range_universe == key_range_t(0, MaxKey + 1)

\* the two rasserts of cpu_sharding_subspace
cpu_sharding_subspace_rassert(subregion_number, num) ==
    subregion_number >= 0 /\ subregion_number < num

\* mutant: the last subspace is as wide as the others
cpu_sharding_subspace_no_remainder(subregion_number, num) ==
    LET width == HASH_REGION_HASH_SIZE \div num
        beg == width * subregion_number
    IN region_t3(beg, beg + width, key_range_universe)

\* rdb_protocol_t::cpu_sharding_subspace
cpu_sharding_subspace(subregion_number, num) ==
    LET width == HASH_REGION_HASH_SIZE \div num
        beg == width * subregion_number
        end == IF subregion_number + 1 = num THEN HASH_REGION_HASH_SIZE ELSE beg + width
    IN region_t3(beg, end, key_range_universe)

InitCpu ==
    /\ num_cpu_shards \in 1..MaxCpuShards
    /\ sharded = <<>>
    /\ pc = "start"
    /\ read = NoVal /\ region = NoVal /\ responses = NoVal /\ response_out = NoVal
    /\ op = NoVal
    /\ NoStores

\* a call cpu_sharding_subspace(i, num_cpu_shards) for a subspace not yet taken;
\* sharded maps the subregion numbers called so far to the regions returned
CpuShardingSubspace ==
    /\ \E i \in (0..num_cpu_shards) \ DOMAIN sharded :
        /\ cpu_sharding_subspace_rassert(i, num_cpu_shards)
        /\ sharded' = [j \in DOMAIN sharded \cup {i} |->
                          IF j = i THEN cpu_sharding_subspace(i, num_cpu_shards)
                          ELSE sharded[j]]
    /\ pc' = "cpu_sharding_subspace"
    /\ UNCHANGED <<read, region, responses, response_out, op, num_cpu_shards>>
    /\ UNCHANGED storeVars

NextCpu == CpuShardingSubspace

SpecCpu == InitCpu /\ [][NextCpu]_vars

\* the hash values of the interval [beg, end) of a region
HashesOf(r) == {h \in 0..(HASH_REGION_HASH_SIZE - 1) : r.beg <= h /\ h < r.end}

\* C15: for 1 <= n <= HASH_SIZE the regions cpu_sharding_subspace(i, n), i in [0, n),
\* have pairwise-disjoint non-empty hash intervals with 0 <= beg <= end <= HASH_SIZE
\* whose union is the whole hash universe; the first n - 1 have width
\* floor(HASH_SIZE / n), the last absorbs the remainder, each spans all keys.
C15_CpuShardingPartitions ==
    num_cpu_shards \in 1..HASH_REGION_HASH_SIZE
    => /\ \A i \in DOMAIN sharded :
            /\ 0 <= sharded[i].beg /\ sharded[i].beg < sharded[i].end
            /\ sharded[i].end <= HASH_REGION_HASH_SIZE
            /\ sharded[i].inner = key_range_universe
            /\ i + 1 < num_cpu_shards
                => sharded[i].end - sharded[i].beg = HASH_REGION_HASH_SIZE \div num_cpu_shards
            /\ i + 1 = num_cpu_shards
                => sharded[i].end - sharded[i].beg
                    = (HASH_REGION_HASH_SIZE \div num_cpu_shards)
                      + (HASH_REGION_HASH_SIZE % num_cpu_shards)
       /\ \A i, j \in DOMAIN sharded : i # j => HashesOf(sharded[i]) \cap HashesOf(sharded[j]) = {}
       /\ DOMAIN sharded = 0..(num_cpu_shards - 1)
            => UNION {HashesOf(sharded[i]) : i \in DOMAIN sharded}
                = 0..(HASH_REGION_HASH_SIZE - 1)

\* all subspaces of a division with a remainder have been taken
C15_Witness ==
    /\ pc = "cpu_sharding_subspace"
    /\ num_cpu_shards \in 2..HASH_REGION_HASH_SIZE
    /\ HASH_REGION_HASH_SIZE % num_cpu_shards # 0
    /\ DOMAIN sharded = 0..(num_cpu_shards - 1)
    /\ sharded[num_cpu_shards - 1].end = HASH_REGION_HASH_SIZE
    /\ sharded[num_cpu_shards - 1].end - sharded[num_cpu_shards - 1].beg
            > sharded[0].end - sharded[0].beg

(* ------------------------------ the B-tree ----------------------------- *)

\* what a B-tree holds under a key: nothing, a value with its recency, or the
\* tombstone of a deletion with its recency
no_entry == [kind |-> "none"]
value_entry(v, rec) == [kind |-> "value", value |-> v, recency |-> rec]
deleted_entry(rec) == [kind |-> "deleted", recency |-> rec]

BtreeEntries == {no_entry, value_entry(1, 1), deleted_entry(1)}

Btrees == [Keys -> BtreeEntries]

empty_btree == [k \in Keys |-> no_entry]

\* rdb_set, rdb_delete
rdb_set(btree, k, v, rec) == [btree EXCEPT ![k] = value_entry(v, rec)]
rdb_delete(btree, k, rec) == [btree EXCEPT ![k] = deleted_entry(rec)]

\* rdb_erase_range(btree, tester, range): the keys of the range the tester
\* accepts are erased; ErasedBy is the set of keys the tester accepts
rdb_erase_range(btree, ErasedBy, kr) ==
    [k \in Keys |-> IF contains_key(kr, k) /\ k \in ErasedBy THEN no_entry ELSE btree[k]]

(* ---------------------------- backfill sender -------------------------- *)

\* the upcalls of the traversal into rdb_backfill_callback_t
on_delete_range_call(kr) == [fn |-> "on_delete_range", range |-> kr]
on_deletion_call(k, rec) == [fn |-> "on_deletion", key |-> k, recency |-> rec]
on_keyvalue_call(atom) == [fn |-> "on_keyvalue", atom |-> atom]

RECURSIVE key_upcalls(_, _, _)
\* the upcalls for the keys ks in ascending order: every value as on_keyvalue,
\* and, when the traversal is incremental, the tombstones not older than since_when
key_upcalls(btree, ks, since_when) ==
    IF ks = {} THEN <<>>
    ELSE LET k == CHOOSE x \in ks : \A y \in ks : x <= y
             e == btree[k]
             this == CASE e.kind = "value" ->
                            <<on_keyvalue_call(backfill_atom_t(k, e.value, e.recency))>>
                       [] e.kind = "deleted" ->
                            IF since_when > 0 /\ e.recency >= since_when
                            THEN <<on_deletion_call(k, e.recency)>> ELSE <<>>
                       [] e.kind = "none" -> <<>>
         IN this \o key_upcalls(btree, ks \ {k}, since_when)

\* rdb_backfill(btree, key_range, since_when, callback): from timestamp 0 the
\* range is wiped first, then every pair of the range is streamed
rdb_backfill(btree, kr, since_when) ==
    (IF since_when = 0 THEN <<on_delete_range_call(kr)>> ELSE <<>>)
    \o key_upcalls(btree, RangeKeys(kr), since_when)

\* mutant: the deleted range is lifted from the universe of keys
on_delete_range_universe(kr) == delete_range_t(region_t(key_range_universe))

\* rdb_backfill_callback_impl_t: the chunk each upcall sends
on_delete_range(kr) == delete_range_t(region_t(kr))
on_deletion(k, rec) == delete_key_t(k, rec)

\* mutant: a key-value pair is sent as the deletion of its key
on_keyvalue_as_deletion(atom) == delete_key_t(atom.key, atom.recency)

on_keyvalue(atom) == key_value_pair_t(atom)

rdb_backfill_callback(u) ==
    CASE u.fn = "on_delete_range" -> on_delete_range(u.range)
      [] u.fn = "on_deletion" -> on_deletion(u.key, u.recency)
      [] u.fn = "on_keyvalue" -> on_keyvalue(u.atom)

\* mutant: send_backfill returns without looking at the interruptor
protocol_send_backfill_unchecked(pulsed) == "returned"

\* lines 919-921: the check after pmap has joined the tasks
protocol_send_backfill_outcome(pulsed) == IF pulsed THEN "interrupted" ELSE "returned"

\* hash intervals of the regions of a start point: the universe and its halves
StartHashIntervals ==
    {<<0, HASH_REGION_HASH_SIZE>>, <<0, HASH_REGION_HASH_SIZE \div 2>>,
     <<HASH_REGION_HASH_SIZE \div 2, HASH_REGION_HASH_SIZE>>}

StartRegions ==
    {region_t3(h[1], h[2], kr) : h \in StartHashIntervals, kr \in NonEmptyKeyRanges}

StartTimestamps == {0, 1}

\* region_map_t keeps its regions disjoint and in order
region_before(a, b) ==
    a.inner.left < b.inner.left \/ (a.inner.left = b.inner.left /\ a.beg < b.beg)

\* the start points: one region, or two disjoint regions, each with a timestamp
StartPoints ==
    {<<[region |-> r, timestamp |-> t]>> : r \in StartRegions, t \in StartTimestamps}
    \cup {<<[region |-> r1, timestamp |-> t1], [region |-> r2, timestamp |-> t2]>> :
            <<r1, r2>> \in {x \in StartRegions \X StartRegions :
                                /\ region_is_empty(region_intersection(x[1], x[2]))
                                /\ region_before(x[1], x[2])},
            <<t1, t2>> \in StartTimestamps \X StartTimestamps}

\* protocol_send_backfill has built `regions` and is about to call pmap
InitSendBackfill ==
    /\ store \in Btrees
    /\ \E sp \in StartPoints :
        /\ backfill = [status |-> "pmap", regions |-> sp]
        /\ tasks = [i \in 1..Len(sp) |-> [pc |-> "spawned", todo |-> <<>>]]
    /\ chunks = <<>>
    /\ interruptor = FALSE
    /\ receiver = NoVal
    /\ shards = NoVal
    /\ read = NoVal /\ region = NoVal /\ responses = NoVal /\ sharded = NoVal
    /\ response_out = NoVal /\ pc = "send_backfill"
    /\ NoOp

\* call_rdb_backfill(i, ...) enters rdb_backfill over regions[i].first.inner
CallRdbBackfill(i) ==
    /\ backfill.status = "pmap"
    /\ tasks[i].pc = "spawned"
    /\ tasks' = [tasks EXCEPT ![i] =
                    [pc |-> "rdb_backfill",
                     todo |-> rdb_backfill(store, backfill.regions[i].region.inner,
                                           backfill.regions[i].timestamp)]]
    /\ UNCHANGED <<read, region, responses, sharded, response_out, pc, op, num_cpu_shards>>
    /\ UNCHANGED <<store, shards, receiver, chunks, interruptor, backfill>>

\* the traversal of task i makes its next upcall and the callback sends the chunk
Upcall(i) ==
    /\ tasks[i].pc = "rdb_backfill"
    /\ tasks[i].todo # <<>>
    /\ ~interruptor
    /\ chunks' = Append(chunks, rdb_backfill_callback(Head(tasks[i].todo)))
    /\ tasks' = [tasks EXCEPT ![i].todo = Tail(tasks[i].todo)]
    /\ UNCHANGED <<read, region, responses, sharded, response_out, pc, op, num_cpu_shards>>
    /\ UNCHANGED <<store, shards, receiver, interruptor, backfill>>

\* send_chunk finds the interruptor pulsed and throws interrupted_exc_t, which
\* unwinds rdb_backfill into the catch block of call_rdb_backfill
UpcallInterrupted(i) ==
    /\ tasks[i].pc = "rdb_backfill"
    /\ tasks[i].todo # <<>>
    /\ interruptor
    /\ tasks' = [tasks EXCEPT ![i].pc = "catch"]
    /\ UNCHANGED <<read, region, responses, sharded, response_out, pc, op, num_cpu_shards>>
    /\ UNCHANGED <<store, shards, receiver, chunks, interruptor, backfill>>

\* lines 897-900: the catch block does nothing and call_rdb_backfill returns
CatchInterrupted(i) ==
    /\ tasks[i].pc = "catch"
    /\ tasks' = [tasks EXCEPT ![i].pc = "returned"]
    /\ UNCHANGED <<read, region, responses, sharded, response_out, pc, op, num_cpu_shards>>
    /\ UNCHANGED <<store, shards, receiver, chunks, interruptor, backfill>>

\* rdb_backfill has made all its upcalls and call_rdb_backfill returns
RdbBackfillReturns(i) ==
    /\ tasks[i].pc = "rdb_backfill"
    /\ tasks[i].todo = <<>>
    /\ tasks' = [tasks EXCEPT ![i].pc = "returned"]
    /\ UNCHANGED <<read, region, responses, sharded, response_out, pc, op, num_cpu_shards>>
    /\ UNCHANGED <<store, shards, receiver, chunks, interruptor, backfill>>

AllTasksReturned == \A i \in 1..Len(tasks) : tasks[i].pc = "returned"

\* pmap returns once every task has returned; then the interruptor is checked
SendBackfillJoin ==
    /\ backfill.status = "pmap"
    /\ AllTasksReturned
    /\ backfill' = [backfill EXCEPT !.status = protocol_send_backfill_outcome(interruptor)]
    /\ UNCHANGED <<read, region, responses, sharded, response_out, pc, op, num_cpu_shards>>
    /\ UNCHANGED <<store, shards, receiver, chunks, tasks, interruptor>>

\* somebody pulses the interruptor
PulseInterruptor ==
    /\ ~interruptor
    /\ interruptor' = TRUE
    /\ UNCHANGED <<read, region, responses, sharded, response_out, pc, op, num_cpu_shards>>
    /\ UNCHANGED <<store, shards, receiver, chunks, tasks, backfill>>

NextSendBackfill ==
    \/ \E i \in 1..Len(tasks) : CallRdbBackfill(i)
    \/ \E i \in 1..Len(tasks) : Upcall(i)
    \/ \E i \in 1..Len(tasks) : UpcallInterrupted(i)
    \/ \E i \in 1..Len(tasks) : CatchInterrupted(i)
    \/ \E i \in 1..Len(tasks) : RdbBackfillReturns(i)
    \/ SendBackfillJoin
    \/ PulseInterruptor

SpecSendBackfill == InitSendBackfill /\ [][NextSendBackfill]_vars

\* C16: an interrupt raised inside one region's traversal stays in that task;
\* send_backfill leaves pmap only after every task has returned, and it then
\* raises Interrupted exactly when the interruptor is pulsed and returns normally
\* exactly when it is not.
C16_InterruptRaisedAfterJoin ==
    /\ [][\A i \in 1..Len(tasks) :
            (tasks[i].pc = "rdb_backfill" /\ tasks'[i].pc = "catch")
            => /\ backfill' = backfill
               /\ \A j \in 1..Len(tasks) : j # i => tasks'[j] = tasks[j]]_vars
    /\ [][\A i \in 1..Len(tasks) : tasks[i].pc = "catch" => backfill'.status = "pmap"]_vars
    /\ [][(backfill.status = "pmap" /\ backfill'.status # "pmap")
            => /\ AllTasksReturned
               /\ backfill'.status = "interrupted" <=> interruptor
               /\ backfill'.status = "returned" <=> ~interruptor]_vars

\* a chunk was sent, a traversal was cut short by the interrupt while the other
\* task returned from a complete traversal, and send_backfill raised Interrupted
C16_Witness ==
    /\ backfill.status = "interrupted"
    /\ chunks # <<>>
    /\ Len(tasks) = 2
    /\ \E i, j \in 1..Len(tasks) :
            /\ tasks[i].todo # <<>> /\ tasks[i].pc = "returned"
            /\ tasks[j].todo = <<>> /\ tasks[j].pc = "returned"

(* --------------------------- backfill receiver ------------------------- *)

\* mutant: the tester looks at the key range only
key_should_be_erased_any_hash(delete_range, k) ==
    contains_key(delete_range.inner, k)

\* range_key_tester_t::key_should_be_erased
key_should_be_erased(delete_range, k) ==
    /\ delete_range.beg <= hash_region_hasher(k)
    /\ hash_region_hasher(k) < delete_range.end
    /\ contains_key(delete_range.inner, k)

\* receive_backfill_visitor_t
receive_backfill(btree, chunk) ==
    CASE chunk.type = "delete_key" -> rdb_delete(btree, chunk.key, chunk.recency)
      [] chunk.type = "delete_range" ->
            rdb_erase_range(btree, {k \in Keys : key_should_be_erased(chunk.range, k)},
                            chunk.range.inner)
      [] chunk.type = "key_value_pair" ->
            rdb_set(btree, chunk.backfill_atom.key, chunk.backfill_atom.value,
                    chunk.backfill_atom.recency)

\* the sender as in InitSendBackfill, and an empty receiver that has applied nothing
InitBackfill ==
    /\ store \in Btrees
    /\ \E sp \in StartPoints :
        /\ backfill = [status |-> "pmap", regions |-> sp]
        /\ tasks = [i \in 1..Len(sp) |-> [pc |-> "spawned", todo |-> <<>>]]
    /\ chunks = <<>>
    /\ interruptor = FALSE
    /\ receiver = [btree |-> empty_btree, applied |-> 0]
    /\ shards = NoVal
    /\ read = NoVal /\ region = NoVal /\ responses = NoVal /\ sharded = NoVal
    /\ response_out = NoVal /\ pc = "send_backfill"
    /\ NoOp

\* store_t::protocol_receive_backfill on the next chunk of the stream
ReceiveBackfill ==
    /\ receiver.applied < Len(chunks)
    /\ receiver' = [btree |-> receive_backfill(receiver.btree, chunks[receiver.applied + 1]),
                    applied |-> receiver.applied + 1]
    /\ UNCHANGED <<read, region, responses, sharded, response_out, pc, op, num_cpu_shards>>
    /\ UNCHANGED <<store, shards, chunks, tasks, interruptor, backfill>>

\* an uninterrupted backfill and its receiver
NextBackfill ==
    \/ \E i \in 1..Len(tasks) : CallRdbBackfill(i)
    \/ \E i \in 1..Len(tasks) : Upcall(i)
    \/ \E i \in 1..Len(tasks) : RdbBackfillReturns(i)
    \/ SendBackfillJoin
    \/ ReceiveBackfill

SpecBackfill == InitBackfill /\ [][NextBackfill]_vars

\* the key lies in the region: its hash in the hash interval, itself in the key range
region_contains_key(r, k) ==
    r.beg <= hash_region_hasher(k) /\ hash_region_hasher(k) < r.end /\ contains_key(r.inner, k)

\* the pairs the B-tree holds within the region
region_contents(btree, r) ==
    [k \in {x \in Keys : region_contains_key(r, x) /\ btree[x].kind = "value"} |-> btree[k].value]

\* send_backfill has returned normally and the receiver has applied every chunk
BackfillApplied ==
    backfill.status = "returned" /\ receiver.applied = Len(chunks)

point_read_response_t(d) == [type |-> "point_read_response", data |-> d]

\* rdb_get: the stored value, or null
rdb_get(btree, k) ==
    point_read_response_t(IF btree[k].kind = "value" THEN btree[k].value ELSE "null")

RECURSIVE first_keys(_, _)
\* the n smallest keys of ks
first_keys(ks, n) ==
    IF ks = {} \/ n = 0 THEN {}
    ELSE LET k == CHOOSE x \in ks : \A y \in ks : x <= y
         IN {k} \cup first_keys(ks \ {k}, n - 1)

RECURSIVE btree_stream(_, _)
\* the pairs of the keys ks in ascending key order
btree_stream(btree, ks) ==
    IF ks = {} THEN <<>>
    ELSE LET k == CHOOSE x \in ks : \A y \in ks : x <= y
         IN <<(<<k, btree[k].value>>)>> \o btree_stream(btree, ks \ {k})

\* rdb_rget_slice without transform and terminal: the first soft_cap pairs of
\* the range; truncated when pairs are left over; last_considered_key is the
\* last key returned
rdb_rget_slice(btree, kr, soft_cap) ==
    LET held == {k \in RangeKeys(kr) : btree[k].kind = "value"}
        taken == first_keys(held, soft_cap)
    IN rget_read_response_t(stream_t(btree_stream(btree, taken)),
                            Cardinality(held) > soft_cap, kr,
                            IF taken = {} THEN kr.left
                            ELSE CHOOSE x \in taken : \A y \in taken : y <= x)

\* read_visitor_t for point reads and range reads
protocol_read(btree, rd) ==
    CASE rd.type = "point" -> rdb_get(btree, rd.key)
      [] rd.type = "rget" -> rdb_rget_slice(btree, rd.key_range, RgetSoftCap)

(* --------------------- specification: reset_data ----------------------- *)

\* mutant: the erase tests the hash of each key against the subregion
protocol_reset_data_hash_tested(btree, subregion) ==
    rdb_erase_range(btree, {k \in Keys : key_should_be_erased(subregion, k)}, subregion.inner)

\* store_t::protocol_reset_data: always_true_key_tester_t accepts every key
protocol_reset_data(btree, subregion) ==
    rdb_erase_range(btree, Keys, subregion.inner)

\* the reads whose region lies in the key range of r
ReadsWithin(r) ==
    {rd \in PointReads : contains_key(r.inner, rd.key)}
    \cup {rd \in RgetReads : rd.terminal.tag = "none"
                               /\ key_range_is_superset(r.inner, rd.key_range)}

InitReset ==
    /\ store \in Btrees
    /\ shards = NoVal
    /\ region \in Regions
    /\ pc = "start"
    /\ read = NoVal /\ responses = NoVal /\ sharded = NoVal /\ response_out = NoVal
    /\ receiver = NoVal /\ chunks = NoVal /\ tasks = NoVal
    /\ interruptor = NoVal /\ backfill = NoVal
    /\ NoOp

\* store_t::protocol_reset_data(region, ...)
ProtocolResetData ==
    /\ pc = "start"
    /\ store' = protocol_reset_data(store, region)
    /\ pc' = "reset_data"
    /\ UNCHANGED <<read, region, responses, sharded, response_out, op, num_cpu_shards>>
    /\ UNCHANGED <<shards, receiver, chunks, tasks, interruptor, backfill>>

\* store_t::protocol_read of a read restricted to the region, after the reset
ProtocolReadAfterReset ==
    /\ pc = "reset_data"
    /\ \E rd \in ReadsWithin(region) :
        /\ read' = rd
        /\ response_out' = protocol_read(store, rd)
    /\ pc' = "read"
    /\ UNCHANGED <<region, responses, sharded, op, num_cpu_shards>>
    /\ UNCHANGED storeVars

NextReset == ProtocolResetData \/ ProtocolReadAfterReset

SpecReset == InitReset /\ [][NextReset]_vars

\* the response holds nothing: a null point response or an empty stream
EmptyResult(resp) ==
    IF "type" \in DOMAIN resp THEN resp.data = "null"
    ELSE resp.result = stream_t(<<>>) /\ ~resp.truncated

hash_shard(btree, i, n) ==
    [k \in Keys |->
        IF region_contains_key(cpu_sharding_subspace(i, n), k) THEN btree[k] ELSE no_entry]

\* a table spread over the stores of its cpu shards, and a range read of it;
\* no store has answered yet
InitShardedRead ==
    /\ store \in Btrees
    /\ num_cpu_shards \in 1..HASH_REGION_HASH_SIZE
    /\ shards = [i \in 1..num_cpu_shards |-> hash_shard(store, i - 1, num_cpu_shards)]
    /\ read \in {rd \in RgetReads : rd.terminal.tag = "none"}
    /\ responses = [i \in 1..num_cpu_shards |-> NoVal]
    /\ region = NoVal /\ sharded = NoVal /\ response_out = NoVal
    /\ pc = "start"
    /\ op = NoVal
    /\ receiver = NoVal /\ chunks = NoVal /\ tasks = NoVal
    /\ interruptor = NoVal /\ backfill = NoVal

\* store_t::protocol_read of the store of shard i on the read sharded to its region
ShardProtocolRead(i) ==
    /\ pc = "start"
    /\ responses[i] = NoVal
    /\ LET reg == region_intersection(get_region(read),
                                       cpu_sharding_subspace(i - 1, num_cpu_shards))
       IN responses' = [responses EXCEPT ![i] = protocol_read(shards[i], shard(read, reg))]
    /\ UNCHANGED <<read, region, sharded, response_out, pc, op, num_cpu_shards>>
    /\ UNCHANGED storeVars

\* read_t::multistore_unshard once every store has answered
MultistoreUnshardShards ==
    /\ pc = "start"
    /\ \A i \in 1..num_cpu_shards : responses[i] # NoVal
    /\ \E nd \in NullDerefOutcomes :
            response_out' = multistore_unshard_rget(read, responses, nd)
    /\ pc' = "multistore_unshard"
    /\ UNCHANGED <<read, region, responses, sharded, op, num_cpu_shards>>
    /\ UNCHANGED storeVars

NextShardedRead ==
    \/ \E i \in 1..num_cpu_shards : ShardProtocolRead(i)
    \/ MultistoreUnshardShards

SpecShardedRead == InitShardedRead /\ [][NextShardedRead]_vars

\* C19: the merged last_considered_key of multistore_unshard is a watermark for
\* every hash shard: it is at most the last_considered_key of every truncated
\* piece, whatever the piece's stream size, so no key up to it that a shard
\* holds in the range is missing from the merged stream.
C19_MergedWatermarkCoversTruncatedPieces ==
    pc = "multistore_unshard"
    => /\ \A i \in 1..Len(responses) :
            responses[i].truncated
                => Merged.last_considered_key <= responses[i].last_considered_key
       /\ \A k \in RangeKeys(read.key_range) :
            (store[k].kind = "value" /\ k <= Merged.last_considered_key)
                => \E j \in 1..Len(Merged.result.stream) : Merged.result.stream[j][1] = k

(* ------------------ claims on the regions of the chunks ---------------- *)

\* task i sends a chunk in this step
SendsChunk(i) ==
    /\ tasks[i].pc = "rdb_backfill" /\ tasks'[i].pc = "rdb_backfill"
    /\ tasks'[i].todo # tasks[i].todo

\* the chunk sent in this step
SentChunk == chunks'[Len(chunks')]

\* the keys a chunk can change when the receiver applies it
AffectedKeys(chunk) ==
    IF chunk.type = "delete_range"
    THEN {k \in Keys : contains_key(chunk.range.inner, k) /\ key_should_be_erased(chunk.range, k)}
    ELSE {k \in Keys : region_contains_key(backfill_chunk_get_region(chunk), k)}

\* C20 as stated: every chunk emitted while traversing start-point entry (R, t)
\* has get_region() within R in both the hash interval and the key range.
C20_ChunkRegionWithinStartRegion ==
    [][\A i \in 1..Len(tasks) :
        SendsChunk(i)
        => region_is_superset(backfill.regions[i].region, backfill_chunk_get_region(SentChunk))]_vars

\* C20, amended: every chunk emitted while traversing (R, t) has the key range of
\* get_region() within R's key range; its hash interval is the whole hash universe
\* for a delete-range and the key's own hash for the other chunks, whatever R's
\* hash interval is; every key the chunk affects at the receiver lies in R's key
\* range, so traversals of regions with disjoint key ranges never affect the same key.
C20_ChunkKeyRangeWithinStartRegion ==
    [][\A i \in 1..Len(tasks) :
        SendsChunk(i)
        => LET r == backfill_chunk_get_region(SentChunk)
               R == backfill.regions[i].region
           IN /\ key_range_is_superset(R.inner, r.inner)
              /\ SentChunk.type = "delete_range"
                    => r.beg = 0 /\ r.end = HASH_REGION_HASH_SIZE
              /\ SentChunk.type = "delete_key"
                    => r.beg = hash_region_hasher(SentChunk.key) /\ r.end = r.beg + 1
              /\ SentChunk.type = "key_value_pair"
                    => r.beg = hash_region_hasher(SentChunk.backfill_atom.key)
                       /\ r.end = r.beg + 1
              /\ AffectedKeys(SentChunk) \subseteq RangeKeys(R.inner)]_vars

\* two regions over halves of the hash universe, neither over all keys; a
\* delete-range over the whole hash universe and a pair whose key hashes outside
\* every region were sent, each within the key range of a region
C20_Witness ==
    /\ Len(backfill.regions) = 2
    /\ \A i \in 1..2 :
            /\ backfill.regions[i].region.end - backfill.regions[i].region.beg
                    < HASH_REGION_HASH_SIZE
            /\ backfill.regions[i].region.inner # key_range_universe
    /\ \E p, q \in 1..Len(chunks) :
            /\ chunks[p].type = "delete_range"
            /\ chunks[p].range.end - chunks[p].range.beg = HASH_REGION_HASH_SIZE
            /\ \E i \in 1..2 : chunks[p].range.inner = backfill.regions[i].region.inner
            /\ chunks[q].type = "key_value_pair"
            /\ \A i \in 1..2 :
                    ~region_contains_key(backfill.regions[i].region, chunks[q].backfill_atom.key)
            /\ \E i \in 1..2 :
                    contains_key(backfill.regions[i].region.inner, chunks[q].backfill_atom.key)

(* ------------- specification: the receiver on arbitrary chunks --------- *)

\* the chunks that act on one key
PointChunks == {c \in BackfillChunks : c.type # "delete_range"}

\* a receiver holding any B-tree is handed one chunk, or a chunk for one key
\* followed by one chunk
InitReceive ==
    /\ \E bt \in Btrees : receiver = [btree |-> bt, applied |-> 0]
    /\ \E c \in BackfillChunks :
        \/ chunks = <<c>>
        \/ \E a \in PointChunks : chunks = <<a, c>>
    /\ store = NoVal /\ shards = NoVal /\ tasks = NoVal
    /\ interruptor = NoVal /\ backfill = NoVal
    /\ read = NoVal /\ region = NoVal /\ responses = NoVal /\ sharded = NoVal
    /\ response_out = NoVal /\ pc = "receive_backfill"
    /\ NoOp

NextReceive == ReceiveBackfill

SpecReceive == InitReceive /\ [][NextReceive]_vars

\* the step applies a delete-range chunk
ReceivesDeleteRange ==
    /\ receiver.applied < Len(chunks)
    /\ receiver'.applied = receiver.applied + 1
    /\ chunks[receiver.applied + 1].type = "delete_range"

\* C21: protocol_receive_backfill of a delete-range chunk of region R leaves no
\* entry under the keys whose hash lies in R's hash interval and which lie in R's
\* key range, and leaves the entry of every other key as it was, the keys of R's
\* key range whose hash lies outside the hash interval among them.
C21_DeleteRangeErasesExactlyRegion ==
    [][ReceivesDeleteRange
        => LET R == chunks[receiver.applied + 1].range
           IN \A k \in Keys :
                receiver'.btree[k] =
                    IF R.beg <= hash_region_hasher(k) /\ hash_region_hasher(k) < R.end
                       /\ contains_key(R.inner, k)
                    THEN no_entry
                    ELSE receiver.btree[k]]_vars

\* a pair was set under a key, then a delete-range whose region holds the key
\* erased it, while a key of the same key range with a hash outside the hash
\* interval still holds its value
C21_Witness ==
    /\ Len(chunks) = 2 /\ receiver.applied = 2
    /\ chunks[1].type = "key_value_pair"
    /\ chunks[2].type = "delete_range"
    /\ region_contains_key(chunks[2].range, chunks[1].backfill_atom.key)
    /\ receiver.btree[chunks[1].backfill_atom.key] = no_entry
    /\ \E k \in Keys :
        /\ contains_key(chunks[2].range.inner, k)
        /\ ~region_contains_key(chunks[2].range, k)
        /\ receiver.btree[k].kind = "value"

(* ----------------- local executor: distribution reads ------------------ *)

\* rdb_distribution_get(btree, max_depth, left): the counts the B-tree answers
\* with; the sample is bounded in depth and is not confined to the range read
DistributionSamples == KeyCounts

RECURSIVE erase_outside_range(_, _, _)
\* lines 711-719: the iterator visits the keys ks still ahead in ascending
\* order and erases the entries whose key the range does not contain
erase_outside_range(kc, ks, range) ==
    IF ks = {} THEN kc
    ELSE LET it == CHOOSE x \in ks : \A y \in ks : x <= y
         IN IF ~contains_key(range, it)
            THEN erase_outside_range([k \in DOMAIN kc \ {it} |-> kc[k]], ks \ {it}, range)
            ELSE erase_outside_range(kc, ks \ {it}, range)

\* mutant: the sample is returned as the B-tree gave it
protocol_read_distribution_unfiltered(dstr, dg) == distribution_read_response_t(dstr)

\* read_visitor_t::operator()(const distribution_read_t &) on the sample dstr
protocol_read_distribution(dstr, dg) ==
    distribution_read_response_t(erase_outside_range(dstr, DOMAIN dstr, dg.range))

(* ------------ unshard of distribution reads sharded by key ------------- *)

\* lines 330-332: the first keys of pieces 0 and 1 are compared when there is
\* more than one piece; begin() of an empty map is not dereferenceable
key_sharded_rassert(rs) ==
    IF Len(rs) <= 1 THEN "passed"
    ELSE IF rs[1].key_counts = EmptyKeyCounts \/ rs[2].key_counts = EmptyKeyCounts
    THEN "undefined"
    ELSE IF SetMin(DOMAIN rs[1].key_counts) = SetMin(DOMAIN rs[2].key_counts)
    THEN "failed" ELSE "passed"

RECURSIVE unshard_distribution_loop(_, _, _)
\* lines 337-350: map::insert of every piece; a key already present keeps its count
unshard_distribution_loop(rs, i, kc) ==
    IF i > Len(rs) THEN kc
    ELSE LET piece == rs[i].key_counts
         IN unshard_distribution_loop(rs, i + 1,
                [k \in DOMAIN kc \cup DOMAIN piece |->
                    IF k \in DOMAIN kc THEN kc[k] ELSE piece[k]])

\* unshard_visitor_t::operator()(const distribution_read_t &)
unshard_distribution(rs) ==
    [status |-> "returned",
     rassert |-> key_sharded_rassert(rs),
     response |-> distribution_read_response_t(
                    unshard_distribution_loop(rs, 1, EmptyKeyCounts))]

\* what the build makes of key_counts.begin()->first on an empty map: the read
\* faults, or it yields some key and the comparison goes either way
EmptyBeginOutcomes == {"segfault", "rassert_passed", "rassert_failed"}

begin_of_empty_map(merged, nd) ==
    IF merged.rassert # "undefined" THEN merged
    ELSE IF nd = "segfault" THEN [status |-> "crashed", rassert |-> "undefined", response |-> NoVal]
    ELSE [merged EXCEPT !.rassert = IF nd = "rassert_passed" THEN "passed" ELSE "failed"]

(* ------------ specification: distribution reads of two stores ---------- *)

\* the read sharded to the two hash halves of its region
hash_sharded_reads(rd) ==
    [i \in 1..2 |->
        shard(rd, region_intersection(get_region(rd), cpu_sharding_subspace(i - 1, 2)))]

\* the read sharded to two adjacent key ranges that make up its range
key_sharded_reads(rd) ==
    {<<shard(rd, region_t(key_range_t(rd.range.left, p))),
       shard(rd, region_t(key_range_t(p, rd.range.right)))>> :
        p \in {x \in Keys : rd.range.left < x /\ x < rd.range.right}}

\* a distribution read sharded over two stores by hash or by key; shards[i] is
\* the sample the B-tree of store i answers with; no store has answered yet
InitDistRead ==
    /\ read \in DistributionReads
    /\ \/ pc = "hash_sharded" /\ sharded = hash_sharded_reads(read)
       \/ pc = "key_sharded" /\ sharded \in key_sharded_reads(read)
    /\ shards \in [1..2 -> DistributionSamples]
    /\ responses = [i \in 1..2 |-> NoVal]
    /\ region = NoVal /\ response_out = NoVal
    /\ store = NoVal
    /\ receiver = NoVal /\ chunks = NoVal /\ tasks = NoVal
    /\ interruptor = NoVal /\ backfill = NoVal
    /\ NoOp

\* store_t::protocol_read of store i on its shard of the read
ShardProtocolReadDistribution(i) ==
    /\ pc \in {"hash_sharded", "key_sharded"}
    /\ responses[i] = NoVal
    /\ responses' = [responses EXCEPT ![i] = protocol_read_distribution(shards[i], sharded[i])]
    /\ UNCHANGED <<read, region, sharded, response_out, pc, op, num_cpu_shards>>
    /\ UNCHANGED storeVars

\* read_t::unshard once both stores of a key-sharded read have answered
UnshardDistributionShards ==
    /\ pc = "key_sharded"
    /\ \A i \in 1..2 : responses[i] # NoVal
    /\ \E nd \in EmptyBeginOutcomes :
            response_out' = begin_of_empty_map(unshard_distribution(responses), nd)
    /\ pc' = "unshard"
    /\ UNCHANGED <<read, region, responses, sharded, op, num_cpu_shards>>
    /\ UNCHANGED storeVars

\* read_t::multistore_unshard once both stores of a hash-sharded read have answered
MultistoreUnshardDistributionShards ==
    /\ pc = "hash_sharded"
    /\ \A i \in 1..2 : responses[i] # NoVal
    /\ \E nd \in EmptyBeginOutcomes :
            response_out' =
                begin_of_empty_map(multistore_unshard_distribution(responses), nd)
    /\ pc' = "multistore_unshard"
    /\ UNCHANGED <<read, region, responses, sharded, op, num_cpu_shards>>
    /\ UNCHANGED storeVars

NextDistRead ==
    \/ \E i \in 1..2 : ShardProtocolReadDistribution(i)
    \/ UnshardDistributionShards
    \/ MultistoreUnshardDistributionShards

SpecDistRead == InitDistRead /\ [][NextDistRead]_vars

\* C22: the response of protocol_read to a distribution read holds exactly the
\* entries of the B-tree's sample whose key lies in the range read, each with
\* the count the sample gave it: no key outside the range is returned and no
\* entry of the range is dropped.
C22_DistributionReadFiltersToRange ==
    \A i \in 1..2 :
        responses[i] # NoVal
        => /\ DOMAIN responses[i].key_counts
                = {k \in DOMAIN shards[i] :
                        sharded[i].range.left <= k /\ k < sharded[i].range.right}
           /\ \A k \in DOMAIN responses[i].key_counts :
                responses[i].key_counts[k] = shards[i][k]

\* a store has answered a read whose sample held a key of the range and a key
\* outside it: the first is returned with its count, the second is not
C22_Witness ==
    \E i \in 1..2 :
        /\ responses[i] # NoVal
        /\ \E k, o \in DOMAIN shards[i] :
            /\ contains_key(sharded[i].range, k)
            /\ ~contains_key(sharded[i].range, o)
            /\ k \in DOMAIN responses[i].key_counts
            /\ responses[i].key_counts[k] = shards[i][k]
            /\ shards[i][k] > 0
            /\ o \notin DOMAIN responses[i].key_counts

\* C23: when unshard or multistore_unshard merges the answers protocol_read
\* gave to a distribution read, pieces 0 and 1 both hold a first key, so the
\* comparison of their first keys reads no empty map, and the assertion made
\* on the comparison passes.
C23_DistributionMergeReadsFirstKeys ==
    pc \in {"unshard", "multistore_unshard"}
    => /\ responses[1].key_counts # EmptyKeyCounts
       /\ responses[2].key_counts # EmptyKeyCounts
       /\ response_out.status = "returned"
       /\ response_out.rassert = "passed"

====
